---- MODULE Spec2Model ----
(***************************************************************************)
(* Model of adhimiw/fte: the certificate authority of                      *)
(* pdf_signature/certificate_authority.py (PDFSigningCA) and the           *)
(* incremental signing engine of pdf_signature/utils.py and                *)
(* pdf_signature/pyhanko_signer.py.                                        *)
(*                                                                         *)
(* The CA keeps its state in files of one directory (ca_cert.pem,          *)
(* ca_key.pem, serial.txt, ca_crl.pem) and takes no lock; an operation is  *)
(* a sequence of file system calls, each one step here.  A Python          *)
(* open(path, "w") truncates the file at once and the text reaches it when *)
(* the with-block closes it, so every write is two steps: *_open leaves    *)
(* the file empty ("torn") and *_flush stores the content.                 *)
(***************************************************************************)
EXTENDS Integers, Sequences, FiniteSets, TLC

\* ---------------------------------------------------------------- bounds
\* Root key pairs that create_ca_certificate may generate in one run.
MaxRoots == 2
\* Calls of the CA's public methods in one run (setup_ca_infrastructure makes
\* three).
MaxOps == 3

\* ------------------------------------------------------- program constants
\* certificate_authority.py:64  serial_number(1): the root's serial.
RootSerial == 1
\* certificate_authority.py:107  f.write("2"): the counter create_ca writes.
InitialNextSerial == 2
\* certificate_authority.py:134  serial = 2 when serial.txt does not exist.
DefaultSerial == 2

\* Two operating system processes that use the same CA directory (two runs
\* of the setup_ca command, or of the module's __main__).
Procs == {"p1", "p2"}

\* The public operations of the CA; "setup" is setup_ca_infrastructure.
Ops == {"load", "issue", "crl", "setup"}

\* The revoked_serials arguments create_crl is called with.
CrlArgs == {{}, {2}}

VARIABLES
    ca_cert_file,   \* ca_cert.pem: [st, serial, key]
    ca_key_file,    \* ca_key.pem:  [st, key]
    serial_file,    \* serial.txt:  [st, n]
    crl_file,       \* ca_crl.pem:  [st, revoked, issuer]
    p12_file,       \* signing_cert.p12: [st, serial, issuer, chain]
    bundle_file,    \* ca_bundle.pem: [st, key]
    keygen,         \* number of root key pairs generated so far
    started,        \* number of calls of the CA's public methods so far
    issued,         \* the leaf certificates signed so far, in order
    first_alloc,    \* the first serial get_next_serial_number returned (0: none)
    serial_hi,      \* the largest counter value ever stored in serial.txt
    boots,          \* keys of the roots load_ca_certificate has returned
    pc,             \* each process's position
    todo,           \* each process's remaining operations (setup runs three)
    loc_cert,       \* each process's ca_cert
    loc_key,        \* each process's ca_private_key
    loc_serial,     \* each process's serial / serial_number
    loc_rev,        \* each process's revoked_serials argument
    docs,           \* the PDF files: path -> byte stream (a sequence of chunks)
    s_pc,           \* the signing call's position
    s_fn,           \* the signing function that is running
    s_in,           \* its input_path
    s_out,          \* its output_path
    s_tmp,          \* its temporary files (or in-memory buffers): name -> bytes
    s_cur,          \* current_pdf_path: the name of the newest temporary file
    s_count,        \* page_count / num_pages
    s_i,            \* the loop variable page_num / i
    s_res,          \* how the last call ended: "none", "ok" or "raised"
    s_snap,         \* the bytes of docs at the start of the call
    s_entry,        \* the public function the caller called
    s_cn,           \* the common name of the certificate the call loaded
    s_stamp,        \* the newest approval's visible text and signing date
    cert_st,        \* the PKCS#12 at CERTIFICATE_P12_PATH: "valid", "expired", "corrupt"
    damage,         \* bytes changed in a file after it was written: path -> [at, how]
    revoked,        \* whether the signing certificate's serial is in the current CRL
    v_pc,           \* the verification call's position
    v_fn,           \* the verification function that is running
    v_path,         \* its pdf_path
    v_res,          \* what the last verification call returned
    p_files,        \* concurrent signing: the files at the calls' paths
    p_dirs,         \* concurrent signing: the temporary directories
    p_call          \* concurrent signing: each call's local variables

ca_files == <<ca_cert_file, ca_key_file, serial_file, crl_file, p12_file, bundle_file>>
ca_hist  == <<keygen, started, issued, first_alloc, serial_hi, boots>>
ca_procs == <<pc, todo, loc_cert, loc_key, loc_serial, loc_rev>>
ca_vars  == <<ca_files, ca_hist, ca_procs>>
sign_vars == <<docs, s_pc, s_fn, s_in, s_out, s_tmp, s_cur, s_count, s_i, s_res, s_snap,
               s_entry, s_cn, s_stamp>>
env_vars == <<cert_st, damage, revoked>>
verify_vars == <<v_pc, v_fn, v_path, v_res>>
more_vars == <<env_vars, verify_vars>>
par_vars == <<p_files, p_dirs, p_call>>
vars == <<ca_vars, sign_vars, more_vars, par_vars>>

\* ------------------------------------------------------------ file contents
NoCert    == [st |-> "absent", serial |-> 0, key |-> 0]
TornCert  == [st |-> "torn", serial |-> 0, key |-> 0]
NoKey     == [st |-> "absent", key |-> 0]
TornKey   == [st |-> "torn", key |-> 0]
NoSerial  == [st |-> "absent", n |-> 0]
TornSerial == [st |-> "torn", n |-> 0]
NoCrl     == [st |-> "absent", revoked |-> {}, issuer |-> 0]
NoP12     == [st |-> "absent", serial |-> 0, issuer |-> 0, chain |-> FALSE]
NoBundle  == [st |-> "absent", key |-> 0]

\* os.path.exists: a truncated file exists.
Exists(f) == f.st # "absent"

\* The self-signed root certificate create_ca_certificate builds for key k.
RootCert(k) == [st |-> "ok", serial |-> RootSerial, key |-> k]

Max(a, b) == IF a >= b THEN a ELSE b

\* --------------------------------------------------------------------- Init
CAInit ==
    /\ ca_cert_file = NoCert
    /\ ca_key_file = NoKey
    /\ serial_file = NoSerial
    /\ crl_file = NoCrl
    /\ p12_file = NoP12
    /\ bundle_file = NoBundle
    /\ keygen = 0
    /\ started = 0
    /\ issued = <<>>
    /\ first_alloc = 0
    /\ serial_hi = 0
    /\ boots = {}
    /\ pc = [p \in Procs |-> "idle"]
    /\ todo = [p \in Procs |-> <<>>]
    /\ loc_cert = [p \in Procs |-> NoCert]
    /\ loc_key = [p \in Procs |-> 0]
    /\ loc_serial = [p \in Procs |-> 0]
    /\ loc_rev = [p \in Procs |-> {}]

\* ------------------------------------------------------ process bookkeeping
\* Process p moves to npc with the operations ntodo left and the given locals.
SetProc(p, npc, ntodo, c, k, s) ==
    /\ pc' = [pc EXCEPT ![p] = npc]
    /\ todo' = [todo EXCEPT ![p] = ntodo]
    /\ loc_cert' = [loc_cert EXCEPT ![p] = c]
    /\ loc_key' = [loc_key EXCEPT ![p] = k]
    /\ loc_serial' = [loc_serial EXCEPT ![p] = s]

\* Process p only moves to npc.
Goto(p, npc) == SetProc(p, npc, todo[p], loc_cert[p], loc_key[p], loc_serial[p])

\* An exception leaves the operation (and setup_ca_infrastructure, which does
\* not catch it); the process's locals are gone.
Abort(p) ==
    /\ SetProc(p, "idle", <<>>, NoCert, 0, 0)
    /\ loc_rev' = [loc_rev EXCEPT ![p] = {}]

\* The current operation of p returns; setup_ca_infrastructure goes on with
\* its next call, which loads the CA again.
FinishOp(p) ==
    IF Len(todo[p]) > 1
    THEN /\ SetProc(p, "load_check", Tail(todo[p]), NoCert, 0, 0)
         /\ UNCHANGED loc_rev
    ELSE Abort(p)

\* load_ca_certificate returns (c, k) to its caller: the caller's next step.
ReturnRoot(p, c, k) ==
    /\ boots' = boots \cup {c.key}
    /\ IF Head(todo[p]) = "load"
       THEN FinishOp(p)
       ELSE /\ SetProc(p, IF Head(todo[p]) = "issue" THEN "serial_read" ELSE "crl_write",
                       todo[p], c, k, 0)
            /\ UNCHANGED loc_rev

\* ------------------------------------------------------ starting operations
StartLoad(p) ==
    /\ pc[p] = "idle"
    /\ started < MaxOps
    /\ started' = started + 1
    /\ SetProc(p, "load_check", <<"load">>, NoCert, 0, 0)
    /\ UNCHANGED <<ca_files, keygen, issued, first_alloc, serial_hi, boots, loc_rev, sign_vars, more_vars, par_vars>>

StartIssue(p) ==
    /\ pc[p] = "idle"
    /\ started < MaxOps
    /\ started' = started + 1
    /\ SetProc(p, "load_check", <<"issue">>, NoCert, 0, 0)
    /\ UNCHANGED <<ca_files, keygen, issued, first_alloc, serial_hi, boots, loc_rev, sign_vars, more_vars, par_vars>>

StartCrl(p) ==
    /\ pc[p] = "idle"
    /\ started < MaxOps
    /\ started' = started + 1
    /\ \E r \in CrlArgs : loc_rev' = [loc_rev EXCEPT ![p] = r]
    /\ SetProc(p, "load_check", <<"crl">>, NoCert, 0, 0)
    /\ UNCHANGED <<ca_files, keygen, issued, first_alloc, serial_hi, boots, sign_vars, more_vars, par_vars>>

\* setup_ca_infrastructure: load_ca_certificate, create_pdf_signing_certificate,
\* create_crl() in a row.
StartSetup(p) ==
    /\ pc[p] = "idle"
    /\ started + 3 <= MaxOps
    /\ started' = started + 3
    /\ SetProc(p, "load_check", <<"load", "issue", "crl">>, NoCert, 0, 0)
    /\ loc_rev' = [loc_rev EXCEPT ![p] = {}]
    /\ UNCHANGED <<ca_files, keygen, issued, first_alloc, serial_hi, boots, sign_vars, more_vars, par_vars>>

\* ------------------------------------------------------ load_ca_certificate
\* load_ca_certificate's test: the root is created when either file is missing.
\* A bootstrap that also replaces a root it cannot read (comparison for
\* UnreadableRootKept).
NeedsCreateUnreadable(certf, keyf) == certf.st # "ok" \/ keyf.st # "ok"

\* A bootstrap that never finds a root (comparison for BootstrapIdempotent).
NeedsCreateAlways(certf, keyf) == TRUE
NeedsCreate(certf, keyf) == ~Exists(certf) \/ ~Exists(keyf)

LoadCheck(p) ==
    /\ pc[p] = "load_check"
    /\ IF NeedsCreate(ca_cert_file, ca_key_file)
       THEN Goto(p, "ca_wcert_open")
       ELSE Goto(p, "load_cert")
    /\ UNCHANGED <<ca_files, ca_hist, loc_rev, sign_vars, more_vars, par_vars>>

\* x509.load_pem_x509_certificate raises on an empty file.
LoadCert(p) ==
    /\ pc[p] = "load_cert"
    /\ IF ca_cert_file.st = "ok"
       THEN /\ SetProc(p, "load_key", todo[p], ca_cert_file, 0, 0)
            /\ UNCHANGED loc_rev
       ELSE Abort(p)
    /\ UNCHANGED <<ca_files, ca_hist, sign_vars, more_vars, par_vars>>

\* serialization.load_pem_private_key raises on an empty file.
LoadKey(p) ==
    /\ pc[p] = "load_key"
    /\ IF ca_key_file.st = "ok"
       THEN ReturnRoot(p, loc_cert[p], ca_key_file.key)
       ELSE Abort(p) /\ UNCHANGED boots
    /\ UNCHANGED <<ca_files, keygen, started, issued, first_alloc, serial_hi, sign_vars, more_vars, par_vars>>

\* ---------------------------------------------------- create_ca_certificate
\* Generates the key pair, builds the certificate and opens ca_cert.pem.
CaWCertOpen(p) ==
    /\ pc[p] = "ca_wcert_open"
    /\ keygen < MaxRoots
    /\ keygen' = keygen + 1
    /\ ca_cert_file' = TornCert
    /\ SetProc(p, "ca_wcert_flush", todo[p], RootCert(keygen + 1), keygen + 1, 0)
    /\ UNCHANGED <<ca_key_file, serial_file, crl_file, p12_file, bundle_file,
                   started, issued, first_alloc, serial_hi, boots, loc_rev, sign_vars, more_vars, par_vars>>

CaWCertFlush(p) ==
    /\ pc[p] = "ca_wcert_flush"
    /\ ca_cert_file' = loc_cert[p]
    /\ Goto(p, "ca_wkey_open")
    /\ UNCHANGED <<ca_key_file, serial_file, crl_file, p12_file, bundle_file,
                   ca_hist, loc_rev, sign_vars, more_vars, par_vars>>

CaWKeyOpen(p) ==
    /\ pc[p] = "ca_wkey_open"
    /\ ca_key_file' = TornKey
    /\ Goto(p, "ca_wkey_flush")
    /\ UNCHANGED <<ca_cert_file, serial_file, crl_file, p12_file, bundle_file,
                   ca_hist, loc_rev, sign_vars, more_vars, par_vars>>

CaWKeyFlush(p) ==
    /\ pc[p] = "ca_wkey_flush"
    /\ ca_key_file' = [st |-> "ok", key |-> loc_key[p]]
    /\ Goto(p, "ca_wserial_open")
    /\ UNCHANGED <<ca_cert_file, serial_file, crl_file, p12_file, bundle_file,
                   ca_hist, loc_rev, sign_vars, more_vars, par_vars>>

CaWSerialOpen(p) ==
    /\ pc[p] = "ca_wserial_open"
    /\ serial_file' = TornSerial
    /\ Goto(p, "ca_wserial_flush")
    /\ UNCHANGED <<ca_cert_file, ca_key_file, crl_file, p12_file, bundle_file,
                   ca_hist, loc_rev, sign_vars, more_vars, par_vars>>

\* The counter create_ca_certificate stores, whatever serial.txt held before.
\* A counter initialised at the root's own serial (comparison for
\* FirstLeafSerial).
CaSerialValueRoot(old) == RootSerial
CaSerialValue(old) == InitialNextSerial

\* Writes the counter and returns (ca_cert, ca_private_key).
CaWSerialFlush(p) ==
    /\ pc[p] = "ca_wserial_flush"
    /\ serial_file' = [st |-> "ok", n |-> CaSerialValue(serial_hi)]
    /\ serial_hi' = Max(serial_hi, serial_file'.n)
    /\ ReturnRoot(p, loc_cert[p], loc_key[p])
    /\ UNCHANGED <<ca_cert_file, ca_key_file, crl_file, p12_file, bundle_file,
                   keygen, started, issued, first_alloc, sign_vars, more_vars, par_vars>>

\* --------------------------------------------------- get_next_serial_number
\* The serial get_next_serial_number takes from serial.txt (f is the file).
ReadSerial(f) == IF ~Exists(f) THEN DefaultSerial ELSE f.n

\* The counter get_next_serial_number stores for the serial it returns.
\* A counter that is not advanced (comparison for SerialDurable).
NextCounterSame(serial) == serial
NextCounter(serial) == serial + 1

\* os.path.exists and the read; int("") raises ValueError on an empty file.
SerialRead(p) ==
    /\ pc[p] = "serial_read"
    /\ IF serial_file.st = "torn"
       THEN Abort(p)
       ELSE /\ SetProc(p, "serial_open", todo[p], loc_cert[p], loc_key[p],
                       ReadSerial(serial_file))
            /\ UNCHANGED loc_rev
    /\ UNCHANGED <<ca_files, ca_hist, sign_vars, more_vars, par_vars>>

SerialOpen(p) ==
    /\ pc[p] = "serial_open"
    /\ serial_file' = TornSerial
    /\ Goto(p, "serial_flush")
    /\ UNCHANGED <<ca_cert_file, ca_key_file, crl_file, p12_file, bundle_file,
                   ca_hist, loc_rev, sign_vars, more_vars, par_vars>>

\* Stores serial + 1 and returns serial.
SerialFlush(p) ==
    /\ pc[p] = "serial_flush"
    /\ serial_file' = [st |-> "ok", n |-> NextCounter(loc_serial[p])]
    /\ serial_hi' = Max(serial_hi, serial_file'.n)
    /\ first_alloc' = IF first_alloc = 0 THEN loc_serial[p] ELSE first_alloc
    /\ Goto(p, "sign")
    /\ UNCHANGED <<ca_cert_file, ca_key_file, crl_file, p12_file, bundle_file,
                   keygen, started, issued, boots, loc_rev, sign_vars, more_vars, par_vars>>

\* ------------------------------------------ create_pdf_signing_certificate
\* The leaf certificate: its serial, the issuer name taken from ca_cert and
\* the root key that signs it.
LeafCert(p) == [serial |-> loc_serial[p], issuer |-> loc_cert[p].key, signer |-> loc_key[p]]

\* CertificateBuilder()...sign(ca_private_key): the certificate exists.
SignCert(p) ==
    /\ pc[p] = "sign"
    /\ issued' = Append(issued, LeafCert(p))
    /\ Goto(p, "p12_write")
    /\ UNCHANGED <<ca_files, keygen, started, first_alloc, serial_hi, boots,
                   loc_rev, sign_vars, more_vars, par_vars>>

\* The ways the PKCS#12 bundle is serialized: the cryptography API, the
\* openssl command line, pyOpenSSL, or none of them (an exception).
P12Methods == {"api", "openssl", "pyopenssl", "none"}

\* Whether the bundle a method produces holds the CA certificate (cas=[ca_cert],
\* -certfile ca.pem; _create_simple_pkcs12 sets no CA certificate).
HasChain(m) == m \in {"api", "openssl"}

\* Serializes the bundle and writes signing_cert.p12.
P12Write(p) ==
    /\ pc[p] = "p12_write"
    /\ \E m \in P12Methods :
          IF m = "none"
          THEN Abort(p) /\ UNCHANGED p12_file
          ELSE /\ p12_file' = [st |-> "ok", serial |-> loc_serial[p],
                               issuer |-> loc_cert[p].key, chain |-> HasChain(m)]
               /\ Goto(p, "bundle_write")
               /\ UNCHANGED loc_rev
    /\ UNCHANGED <<ca_cert_file, ca_key_file, serial_file, crl_file, bundle_file,
                   ca_hist, sign_vars, more_vars, par_vars>>

\* Writes ca_bundle.pem and returns the two paths.
BundleWrite(p) ==
    /\ pc[p] = "bundle_write"
    /\ bundle_file' = [st |-> "ok", key |-> loc_cert[p].key]
    /\ FinishOp(p)
    /\ UNCHANGED <<ca_cert_file, ca_key_file, serial_file, crl_file, p12_file,
                   ca_hist, sign_vars, more_vars, par_vars>>

\* --------------------------------------------------------------- create_crl
\* Builds the CRL from the revoked_serials argument alone and writes it.
CrlWrite(p) ==
    /\ pc[p] = "crl_write"
    /\ crl_file' = [st |-> "ok", revoked |-> loc_rev[p], issuer |-> loc_key[p]]
    /\ FinishOp(p)
    /\ UNCHANGED <<ca_cert_file, ca_key_file, serial_file, p12_file, bundle_file,
                   ca_hist, sign_vars, more_vars, par_vars>>

\* -------------------------------------------------------------- environment
\* The process is killed: its files stay as they are.
Crash(p) ==
    /\ pc[p] # "idle"
    /\ Abort(p)
    /\ UNCHANGED <<ca_files, ca_hist, sign_vars, more_vars, par_vars>>

\* A file of the CA directory is missing when the next operation starts.
RemoveFile ==
    /\ \A p \in Procs : pc[p] = "idle"
    /\ \E f \in {"cert", "key", "serial"} :
          /\ ca_cert_file' = IF f = "cert" THEN NoCert ELSE ca_cert_file
          /\ ca_key_file' = IF f = "key" THEN NoKey ELSE ca_key_file
          /\ serial_file' = IF f = "serial" THEN NoSerial ELSE serial_file
    /\ <<ca_cert_file, ca_key_file, serial_file>>' # <<ca_cert_file, ca_key_file, serial_file>>
    /\ UNCHANGED <<crl_file, p12_file, bundle_file, ca_hist, ca_procs, sign_vars, more_vars, par_vars>>

\* ca_key.pem is lost while no call is running.
RemoveKey ==
    /\ \A p \in Procs : pc[p] = "idle"
    /\ Exists(ca_key_file)
    /\ ca_key_file' = NoKey
    /\ UNCHANGED <<ca_cert_file, serial_file, crl_file, p12_file, bundle_file,
                   ca_hist, ca_procs, sign_vars, more_vars, par_vars>>

\* A root file becomes unreadable while no call is running: it still exists,
\* but its content cannot be parsed or decrypted.
DamageRoot ==
    /\ \A p \in Procs : pc[p] = "idle"
    /\ \/ /\ ca_cert_file.st = "ok"
          /\ ca_cert_file' = TornCert
          /\ UNCHANGED ca_key_file
       \/ /\ ca_key_file.st = "ok"
          /\ ca_key_file' = TornKey
          /\ UNCHANGED ca_cert_file
    /\ UNCHANGED <<serial_file, crl_file, p12_file, bundle_file,
                   ca_hist, ca_procs, sign_vars, more_vars, par_vars>>

\* One step of process p in a CA operation.
CAStep(p) ==
    \/ StartLoad(p) \/ StartIssue(p) \/ StartCrl(p) \/ StartSetup(p)
    \/ LoadCheck(p) \/ LoadCert(p) \/ LoadKey(p)
    \/ CaWCertOpen(p) \/ CaWCertFlush(p) \/ CaWKeyOpen(p) \/ CaWKeyFlush(p)
    \/ CaWSerialOpen(p) \/ CaWSerialFlush(p)
    \/ SerialRead(p) \/ SerialOpen(p) \/ SerialFlush(p)
    \/ SignCert(p) \/ P12Write(p) \/ BundleWrite(p)
    \/ CrlWrite(p)

\* A deployment with one process, which makes one call at a time.
Single == {"p1"}

\* ========================================================= signing engine
\* A PDF file is a sequence of chunks: the original document, then one chunk
\* for every incremental revision (one signature each); <<>> is no file.

\* ---------------------------------------------------------------- bounds
\* Pages of an uploaded document.
MaxPages == 2
\* A call is started on inputs that hold at most this many certifying
\* signatures (outputs of the engine are signed again).
MaxCertsIn == 1

\* ------------------------------------------------------- program constants
\* utils.py:319 "certification_level": 1 / pyhanko_signer.py:118 NO_CHANGES.
NoChangesLevel == 1

Paths == {"a", "b"}

\* sign_pdf_multi_page_with_proper_mdp, sign_pdf_multi_page and
\* sign_pdf_pyhanko_with_proper_mdp.
Fns == {"mdp", "legacy", "pyhanko"}

NoDoc == <<>>

\* The unsigned document of n pages.
Base(n) == [kind |-> "base", pages |-> n, field |-> "", num |-> 0, page |-> 0,
            visible |-> FALSE, level |-> 0, covers |-> 0]

\* An approval made without a signaturebox (comparison for
\* OnlyCertificationInvisible).
PageDctNoBox(fn, k) ==
    [kind |-> "approve",
     field |-> IF fn = "pyhanko" THEN "ApprovalSignaturePage" ELSE "ApprovalSignature_Page",
     num |-> k + 1, page |-> k, visible |-> FALSE, level |-> 0]

\* A loop that signs the first page in every iteration (comparison for
\* OneApprovalPerPage).
PageDctSamePage(fn, k) ==
    [kind |-> "approve",
     field |-> IF fn = "pyhanko" THEN "ApprovalSignaturePage" ELSE "ApprovalSignature_Page",
     num |-> 1, page |-> 0, visible |-> TRUE, level |-> 0]

\* page_sig_dct / meta: the approval signature of page index k (0-based).
PageDct(fn, k) ==
    [kind |-> "approve",
     field |-> IF fn = "pyhanko" THEN "ApprovalSignaturePage" ELSE "ApprovalSignature_Page",
     num |-> k + 1, page |-> k, visible |-> TRUE, level |-> 0]

\* A first signature made as an approval (comparison for CertifiedFirst).
CertifyDctApproval(fn) == PageDct(fn, 0)

\* certify_dct / cert_meta: the certifying signature's parameters; it has no
\* signaturebox.
CertifyDct(fn) ==
    [kind |-> "certify",
     field |-> IF fn = "pyhanko" THEN "CertificationSignature" ELSE "CertificationSig",
     num |-> 0, page |-> 0, visible |-> FALSE, level |-> NoChangesLevel]

\* endesive_cms.sign(data, dct, ...) / signers.sign_pdf: the bytes of one
\* incremental revision, whose byte range covers the data it was given.
CmsSign(data, dct) ==
    [kind |-> dct.kind, pages |-> 0, field |-> dct.field, num |-> dct.num,
     page |-> dct.page, visible |-> dct.visible, level |-> dct.level,
     covers |-> Len(data)]

\* f_out.write(data); f_out.write(signature): the bytes of the new revision.
Revision(data, dct) == Append(data, CmsSign(data, dct))

\* A count that sees one page only (comparison for RoundTrip).
PageCountFirst(data) == 1

\* get_pdf_page_count / the /Pages /Count entry: signatures add no page.
PageCount(data) == data[1].pages

\* The number of chunks of one kind in a byte stream.
Count(data, kind) == Cardinality({j \in DOMAIN data : data[j].kind = kind})

\* The readings of the clock (datetime.now()) during one loop iteration, in
\* minutes: the clock stays at a reading or moves on.
Ticks == {0, 1}

\* The common names a signing certificate may carry: the name written into
\* the program (DEFAULT_SIGNER_INFO / SIGNER_NAME) in mixed case, and another
\* signer's.
CommonNames == {"Arul M", "Jane Doe"}

\* No certificate has been loaded.
NoName == ""

\* str.upper() on the common names.
Upper(cn) ==
    CASE cn = "Arul M" -> "ARUL M"
      [] cn = "Jane Doe" -> "JANE DOE"
      [] OTHER -> cn

\* No approval has been signed by the call.
NoStamp == [name |-> "", shown |-> 0, signed |-> 0]

\* SignatureAppearance.build_appearance_dict: the name line is the loaded
\* certificate's common name in upper case; date_str, time_str and
\* "signingdate" come from the one reading current_time.
BuildAppearance(cn, now) == [name |-> Upper(cn), shown |-> now, signed |-> now]

\* The PyHanko loop: the stamp text names SIGNER_NAME and shows now_local;
\* no date is handed to signers.sign_pdf, which takes the signing time when
\* it signs.
StampStyle(now, later) == [name |-> "ARUL M", shown |-> now, signed |-> later]

\* What an approval shows and what is recorded as its signing date.
Stamp(fn, cn, now, later) ==
    IF fn = "pyhanko" THEN StampStyle(now, later) ELSE BuildAppearance(cn, now)

SignInit ==
    /\ docs = [q \in Paths |-> NoDoc]
    /\ s_pc = "idle"
    /\ s_fn = "mdp"
    /\ s_in = "a"
    /\ s_out = "a"
    /\ s_tmp = <<>>
    /\ s_cur = 0
    /\ s_count = 0
    /\ s_i = 0
    /\ s_res = "none"
    /\ s_snap = [q \in Paths |-> NoDoc]
    /\ s_entry = "mdp"
    /\ s_cn = NoName
    /\ s_stamp = NoStamp

\* A user puts an unsigned document of n pages at a path.
SUpload ==
    /\ s_pc = "idle"
    /\ \E q \in Paths, n \in 1..MaxPages :
          /\ docs[q] = NoDoc
          /\ docs' = [docs EXCEPT ![q] = <<Base(n)>>]
    /\ UNCHANGED <<s_pc, s_fn, s_in, s_out, s_tmp, s_cur, s_count, s_i, s_res, s_snap,
                   s_entry, s_cn, s_stamp, ca_vars, par_vars, more_vars>>

\* The entry of a signing call: entry point e runs function fn with
\* input_path i and output_path o.
Call(e, fn, i, o) ==
    /\ s_entry' = e
    /\ s_fn' = fn
    /\ s_in' = i
    /\ s_out' = o
    /\ s_pc' = "load"
    /\ s_tmp' = <<>>
    /\ s_cur' = 0
    /\ s_count' = 0
    /\ s_i' = 0
    /\ s_res' = "none"
    /\ s_snap' = docs
    /\ s_cn' = NoName
    /\ s_stamp' = NoStamp
    /\ UNCHANGED docs

\* A signing function is called with input_path i and output_path o.
SStart ==
    /\ s_pc = "idle"
    /\ \E fn \in Fns, i \in Paths, o \in Paths :
          /\ Count(docs[i], "certify") <= MaxCertsIn
          /\ Call(fn, fn, i, o)
    /\ UNCHANGED <<ca_vars, par_vars, more_vars>>

\* The compatibility wrappers of utils.py (sign_pdf_cryptographically with
\* use_pyhanko=False).
Wrappers == {"sign_pdf_single_page", "sign_pdf_cryptographically",
             "create_pdfa_compliant_signature", "_sign_with_endesive",
             "sign_each_page_with_endesive", "sign_each_page_individually_with_endesive"}

\* The wrappers and sign_pdf_cryptographically called with use_pyhanko=True.
EntryPoints == Wrappers \cup {"sign_pdf_cryptographically(use_pyhanko=True)"}

\* Wrappers that run the legacy function (comparison for EntryPointsAgree).
DispatchLegacy(e) == "legacy"

\* The function a wrapper hands its arguments to and whose result or
\* exception it passes on.
Dispatch(e) ==
    IF e = "sign_pdf_cryptographically(use_pyhanko=True)" THEN "pyhanko" ELSE "mdp"

\* A wrapper is called with input_path i and output_path o.
SWrapper ==
    /\ s_pc = "idle"
    /\ \E e \in EntryPoints, i \in Paths, o \in Paths :
          /\ Count(docs[i], "certify") <= MaxCertsIn
          /\ Call(e, Dispatch(e), i, o)
    /\ UNCHANGED <<ca_vars, par_vars, more_vars>>

\* A failure that ends like a success (comparison for NoPartialSuccess).
ErrorResultOk(fn) == "ok"

\* How a call that fails ends: every path re-raises the exception.
ErrorResult(fn) == "raised"

\* The files after a failure.  sign_pdf_multi_page's handler copies the input
\* to output_path when nothing is there; the others write nothing.
AfterError(fn, in_try, d, i, o) ==
    IF fn = "legacy" /\ in_try /\ d[o] = NoDoc /\ d[i] # NoDoc
    THEN [d EXCEPT ![o] = d[i]]
    ELSE d

\* An exception ends the call; the temporary directory is removed.
Fail(in_try) ==
    /\ docs' = AfterError(s_fn, in_try, docs, s_in, s_out)
    /\ s_res' = ErrorResult(s_fn)
    /\ s_pc' = "idle"
    /\ s_tmp' = <<>>
    /\ s_cur' = 0
    /\ s_cn' = NoName
    /\ s_stamp' = NoStamp
    /\ UNCHANGED <<s_fn, s_in, s_out, s_count, s_i, s_snap, s_entry>>

\* The states of the configured signing certificate (PKCS#12 file).
CertStates == {"valid", "expired", "corrupt"}

\* serialization.pkcs12.load_key_and_certificates / load_pkcs12: the container
\* is parsed and decrypted; the validity window of the certificate is not
\* looked at.
Loadable(c) == c # "corrupt"

\* The configured certificate changes between calls: it expires, is damaged
\* or is replaced.
SCertChange ==
    /\ s_pc = "idle"
    /\ \E c \in CertStates \ {cert_st} : cert_st' = c
    /\ UNCHANGED <<damage, revoked, verify_vars, sign_vars, ca_vars, par_vars>>

\* load_certificate_data (before the try block) / get_certificate_info_pyhanko.
SLoad ==
    /\ s_pc = "load"
    /\ \E ok \in BOOLEAN, cn \in CommonNames :
          IF ok /\ Loadable(cert_st)
          THEN /\ s_pc' = IF s_fn = "pyhanko" THEN "count" ELSE "certify"
               /\ s_cn' = cn
               /\ UNCHANGED <<docs, s_fn, s_in, s_out, s_tmp, s_cur, s_count, s_i, s_res, s_snap,
                              s_entry, s_stamp>>
          ELSE Fail(s_fn = "pyhanko")
    /\ UNCHANGED <<ca_vars, par_vars, more_vars>>

\* Reads the input, signs it with the certifying signature and writes
\* certified.pdf (PyHanko: certified_pdf_data).
SCertify ==
    /\ s_pc = "certify"
    /\ \E ok \in BOOLEAN :
          IF ok /\ docs[s_in] # NoDoc
          THEN /\ s_tmp' = <<Revision(docs[s_in], CertifyDct(s_fn))>>
               /\ s_cur' = 1
               /\ s_pc' = IF s_fn = "pyhanko" THEN "page" ELSE "count"
               /\ UNCHANGED <<docs, s_fn, s_in, s_out, s_count, s_i, s_res, s_snap,
                              s_entry, s_cn, s_stamp>>
          ELSE Fail(TRUE)
    /\ UNCHANGED <<ca_vars, par_vars, more_vars>>

\* The bytes whose pages are counted: certified.pdf, or for PyHanko the input.
CountInput == IF s_fn = "pyhanko" THEN docs[s_in] ELSE s_tmp[1]

SCount ==
    /\ s_pc = "count"
    /\ \E ok \in BOOLEAN :
          IF ok /\ CountInput # NoDoc
          THEN /\ s_count' = PageCount(CountInput)
               /\ s_i' = 0
               /\ s_pc' = IF s_fn = "pyhanko" THEN "certify" ELSE "page"
               /\ UNCHANGED <<docs, s_fn, s_in, s_out, s_tmp, s_cur, s_res, s_snap,
                              s_entry, s_cn, s_stamp>>
          ELSE Fail(TRUE)
    /\ UNCHANGED <<ca_vars, par_vars, more_vars>>

\* A loop that signs certified.pdf in every iteration (comparison for
\* AppendOnlyChain).
PageInputCertified == s_tmp[1]

\* The bytes the loop signs next: the file at current_pdf_path.
PageInput == s_tmp[s_cur]

\* One iteration of the page loop: builds the appearance from the clock
\* reading `now`, reads the current file, signs it for page s_i (the library
\* signs at the reading `later`) and writes page_{s_i}_signed.pdf, the new
\* current file.
SPage ==
    /\ s_pc = "page"
    /\ s_i < s_count
    /\ \E ok \in BOOLEAN, now \in Ticks, later \in Ticks :
          IF ok
          THEN /\ later >= now
               /\ s_tmp' = Append(s_tmp, Revision(PageInput, PageDct(s_fn, s_i)))
               /\ s_cur' = Len(s_tmp) + 1
               /\ s_i' = s_i + 1
               /\ s_stamp' = Stamp(s_fn, s_cn, now, later)
               /\ UNCHANGED <<docs, s_pc, s_fn, s_in, s_out, s_count, s_res, s_snap,
                              s_entry, s_cn>>
          ELSE Fail(TRUE)
    /\ UNCHANGED <<ca_vars, par_vars, more_vars>>

\* shutil.move(current_pdf_path, output_path) / the final write; returns
\* output_path.
SMove ==
    /\ s_pc = "page"
    /\ s_i = s_count
    /\ \E ok \in BOOLEAN :
          IF ok
          THEN /\ docs' = [docs EXCEPT ![s_out] = s_tmp[s_cur]]
               /\ s_res' = "ok"
               /\ s_pc' = "idle"
               /\ s_tmp' = <<>>
               /\ s_cur' = 0
               /\ s_cn' = NoName
               /\ s_stamp' = NoStamp
               /\ UNCHANGED <<s_fn, s_in, s_out, s_count, s_i, s_snap, s_entry>>
          ELSE Fail(TRUE)
    /\ UNCHANGED <<ca_vars, par_vars, more_vars>>

\* ============================================================ verification
\* No byte of the file was changed after it was written.
NoDamage == [at |-> 0, how |-> "none"]

\* No verification call has returned yet.
NoResult == [outcome |-> "none", list |-> <<>>]

MoreInit ==
    /\ cert_st = "valid"
    /\ damage = [q \in Paths |-> NoDamage]
    /\ revoked = FALSE
    /\ v_pc = "idle"
    /\ v_fn = "endesive"
    /\ v_path = "a"
    /\ v_res = NoResult

\* verify_pdf_signature (endesive) and verify_pdf_signature_pyhanko; the
\* third value is a call of either while its library is not installed.
VerifyFns == {"endesive", "pyhanko", "unavailable"}

RECURSIVE ApprovePages(_, _, _, _)
\* The page loop of the signing functions run to its end on data.
ApprovePages(fn, data, k, n) ==
    IF k >= n THEN data
    ELSE ApprovePages(fn, Revision(data, PageDct(fn, k)), k + 1, n)

\* What a successful signing call writes for an unsigned document of n pages.
SignedDoc(fn, n) == ApprovePages(fn, Revision(<<Base(n)>>, CertifyDct(fn)), 0, n)

\* A document made outside the engine: the approvals first, the certifying
\* signature last.
Misordered(fn, n) == Revision(ApprovePages(fn, <<Base(n)>>, 0, n), CertifyDct(fn))

\* The documents given to the verification functions.
GivenDocs ==
    {<<Base(n)>> : n \in 1..MaxPages}
    \cup {SignedDoc(fn, n) : fn \in Fns, n \in 1..MaxPages}
    \cup {Misordered(fn, n) : fn \in Fns, n \in 1..MaxPages}

\* A document is stored at a free path.
VPut ==
    /\ v_pc = "idle"
    /\ \E q \in Paths, d \in GivenDocs :
          /\ docs[q] = NoDoc
          /\ docs' = [docs EXCEPT ![q] = d]
    /\ UNCHANGED <<s_pc, s_fn, s_in, s_out, s_tmp, s_cur, s_count, s_i, s_res, s_snap,
                   s_entry, s_cn, s_stamp,
                   ca_vars, par_vars, more_vars>>

\* Bytes of a stored file are changed: inside chunk `at`, either leaving the
\* PDF and signature syntax readable ("content") or not ("syntax"); or the
\* last bytes of the file are cut off ("truncated").
VDamage ==
    /\ v_pc = "idle"
    /\ \E q \in Paths :
          /\ docs[q] # NoDoc
          /\ damage[q] = NoDamage
          /\ \/ \E at \in DOMAIN docs[q], how \in {"content", "syntax"} :
                   damage' = [damage EXCEPT ![q] = [at |-> at, how |-> how]]
             \/ damage' = [damage EXCEPT ![q] = [at |-> Len(docs[q]), how |-> "truncated"]]
    /\ UNCHANGED <<cert_st, revoked, verify_vars, sign_vars, ca_vars, par_vars>>

\* The CA publishes a CRL that lists the signing certificate's serial.
VRevoke ==
    /\ v_pc = "idle"
    /\ ~revoked
    /\ revoked' = TRUE
    /\ UNCHANGED <<cert_st, damage, verify_vars, sign_vars, ca_vars, par_vars>>

\* verify_pdf_signature(pdf_path) / verify_pdf_signature_pyhanko(pdf_path) is
\* called.
VStart ==
    /\ v_pc = "idle"
    /\ \E fn \in VerifyFns, q \in Paths :
          /\ v_fn' = fn
          /\ v_path' = q
    /\ v_pc' = "read"
    /\ v_res' = NoResult
    /\ UNCHANGED <<env_vars, sign_vars, ca_vars, par_vars>>

\* What the verification library does with the bytes it is given: it returns
\* its list of signatures, or raises when it cannot read the syntax; on a
\* file cut short it may do either.
LibOutcomes(dmg) ==
    CASE dmg.how = "syntax" -> {"raises"}
      [] dmg.how = "truncated" -> {"raises", "returns"}
      [] OTHER -> {"returns"}

\* signature_ok and hash_ok of the signature in chunk j: the bytes it covers,
\* chunks 1..j, are as they were signed.
Intact(j, dmg) == dmg.how = "none" \/ dmg.at > j

\* endesive_verify_func(pdf_data, []) / signers.embedded_signatures with
\* validate_pdf_signature: one entry for each signature of the file, in file
\* order.  No CRL and no trust root is given to the library.
LibVerify(doc, dmg) ==
    [k \in 1..(Len(doc) - 1) |->
        [field |-> doc[k + 1].field, num |-> doc[k + 1].num,
         valid |-> Intact(k + 1, dmg)]]

\* The list both functions return: empty when the library is missing, when
\* the file cannot be opened and when the library raises.
VerifyReturn(fn, doc, dmg, lib) ==
    IF fn = "unavailable" \/ doc = NoDoc \/ lib = "raises"
    THEN <<>>
    ELSE LibVerify(doc, dmg)

\* A file opened with mode 'wb' (comparison for VerifyReadOnly).
OpenForWrite(d) == NoDoc

\* open(pdf_path, 'rb'): the file is left as it is.
OpenForRead(d) == d

\* The call returns `results`; every exception has been logged and dropped.
VReturn ==
    /\ v_pc = "read"
    /\ \E lib \in LibOutcomes(damage[v_path]) :
          v_res' = [outcome |-> "returned",
                    list |-> VerifyReturn(v_fn, docs[v_path], damage[v_path], lib)]
    /\ docs' = [docs EXCEPT ![v_path] = OpenForRead(docs[v_path])]
    /\ v_pc' = "idle"
    /\ UNCHANGED <<s_pc, s_fn, s_in, s_out, s_tmp, s_cur, s_count, s_i, s_res, s_snap,
                   s_entry, s_cn, s_stamp,
                   env_vars, v_fn, v_path, ca_vars, par_vars>>

\* ======================================================= concurrent signing
\* Signing calls that run at the same time on different documents (threads
\* or worker processes of the web application).  Each call is the sequence
\* of file system calls of sign_pdf_multi_page_with_proper_mdp or of
\* sign_pdf_multi_page; the calls share the file system.

Calls == {1, 2}

\* The functions of utils.py that work through a temporary directory.
ParFns == {"mdp", "legacy"}

\* The paths of call c: every call has an input and an output of its own.
In(c) == <<"in", c>>
Out(c) == <<"out", c>>
ParPaths == {In(c) : c \in Calls} \cup {Out(c) : c \in Calls}

\* The directories under the system's temporary directory.
Dirs == {"tmp_a", "tmp_b"}

\* The files of a temporary directory: 0 is certified.pdf and k + 1 is
\* page_{k}_signed.pdf.
TempNames == 0..MaxPages

NoDir == [exists |-> FALSE, f |-> [k \in TempNames |-> NoDoc]]
EmptyDir == [exists |-> TRUE, f |-> [k \in TempNames |-> NoDoc]]

NoCall == [pc |-> "idle", fn |-> "mdp", dir |-> "tmp_a", cur |-> 0, count |-> 0,
           i |-> 0, res |-> "none"]

ParInit ==
    /\ p_files = [q \in ParPaths |-> NoDoc]
    /\ p_dirs = [d \in Dirs |-> NoDir]
    /\ p_call = [c \in Calls |-> NoCall]

\* One fixed directory for all calls (comparison for ParallelIndependent).
TempDirShared(c) == "tmp_a"

\* tempfile.mkdtemp(): a directory that did not exist, so no two calls get
\* the same one.
TempDir(c) == IF c = 1 THEN "tmp_a" ELSE "tmp_b"

\* A user puts an unsigned document of n pages at the input path of call c.
PUpload(c) ==
    /\ p_call[c].pc = "idle"
    /\ p_files[In(c)] = NoDoc
    /\ \E n \in 1..MaxPages : p_files' = [p_files EXCEPT ![In(c)] = <<Base(n)>>]
    /\ UNCHANGED <<p_dirs, p_call, ca_vars, sign_vars, more_vars>>

\* Call c starts: fn(In(c), Out(c)).
PStart(c) ==
    /\ p_call[c].pc = "idle"
    /\ p_files[In(c)] # NoDoc
    /\ \E fn \in ParFns : p_call' = [p_call EXCEPT ![c] = [NoCall EXCEPT !.pc = "load", !.fn = fn]]
    /\ UNCHANGED <<p_files, p_dirs, ca_vars, sign_vars, more_vars>>

\* The except and finally blocks: the handler of sign_pdf_multi_page copies
\* the input, the temporary directory is removed and the exception leaves
\* the call.
PFail(c) ==
    /\ p_files' = AfterError(p_call[c].fn, TRUE, p_files, In(c), Out(c))
    /\ p_dirs' = [p_dirs EXCEPT ![p_call[c].dir] = NoDir]
    /\ p_call' = [p_call EXCEPT ![c].pc = "done", ![c].res = ErrorResult(p_call[c].fn)]

\* load_certificate_data, then mkdtemp; a failure to load leaves the call
\* before the try block.
PLoad(c) ==
    /\ p_call[c].pc = "load"
    /\ \E ok \in BOOLEAN :
          IF ok
          THEN /\ p_call' = [p_call EXCEPT ![c].pc = "certify", ![c].dir = TempDir(c)]
               /\ p_dirs' = IF p_dirs[TempDir(c)].exists THEN p_dirs
                            ELSE [p_dirs EXCEPT ![TempDir(c)] = EmptyDir]
               /\ UNCHANGED p_files
          ELSE /\ p_call' = [p_call EXCEPT ![c].pc = "done",
                                           ![c].res = ErrorResult(p_call[c].fn)]
               /\ UNCHANGED <<p_files, p_dirs>>
    /\ UNCHANGED <<ca_vars, sign_vars, more_vars>>

\* Reads the input, signs it with the certifying signature and writes
\* certified.pdf into the call's temporary directory.
PCertify(c) ==
    /\ p_call[c].pc = "certify"
    /\ \E ok \in BOOLEAN :
          LET k == p_call[c]
              data == p_files[In(c)]
          IN  IF ok /\ data # NoDoc /\ p_dirs[k.dir].exists
              THEN /\ p_dirs' = [p_dirs EXCEPT ![k.dir].f[0] = Revision(data, CertifyDct(k.fn))]
                   /\ p_call' = [p_call EXCEPT ![c].pc = "count", ![c].cur = 0]
                   /\ UNCHANGED p_files
              ELSE PFail(c)
    /\ UNCHANGED <<ca_vars, sign_vars, more_vars>>

\* get_pdf_page_count(certified_pdf_path).
PCount(c) ==
    /\ p_call[c].pc = "count"
    /\ \E ok \in BOOLEAN :
          LET k == p_call[c]
              data == p_dirs[k.dir].f[0]
          IN  IF ok /\ data # NoDoc
              THEN /\ p_call' = [p_call EXCEPT ![c].pc = "page", ![c].i = 0,
                                               ![c].count = PageCount(data)]
                   /\ UNCHANGED <<p_files, p_dirs>>
              ELSE PFail(c)
    /\ UNCHANGED <<ca_vars, sign_vars, more_vars>>

\* One iteration of the page loop: reads the file at current_pdf_path and
\* writes page_{i}_signed.pdf.
PPage(c) ==
    /\ p_call[c].pc = "page"
    /\ p_call[c].i < p_call[c].count
    /\ \E ok \in BOOLEAN :
          LET k == p_call[c]
              data == p_dirs[k.dir].f[k.cur]
          IN  IF ok /\ data # NoDoc
              THEN /\ p_dirs' = [p_dirs EXCEPT ![k.dir].f[k.i + 1] =
                                     Revision(data, PageDct(k.fn, k.i))]
                   /\ p_call' = [p_call EXCEPT ![c].cur = k.i + 1, ![c].i = k.i + 1]
                   /\ UNCHANGED p_files
              ELSE PFail(c)
    /\ UNCHANGED <<ca_vars, sign_vars, more_vars>>

\* shutil.move(current_pdf_path, output_path), return output_path; the
\* finally block removes the temporary directory.
PMove(c) ==
    /\ p_call[c].pc = "page"
    /\ p_call[c].i = p_call[c].count
    /\ \E ok \in BOOLEAN :
          LET k == p_call[c]
              data == p_dirs[k.dir].f[k.cur]
          IN  IF ok /\ data # NoDoc
              THEN /\ p_files' = [p_files EXCEPT ![Out(c)] = data]
                   /\ p_dirs' = [p_dirs EXCEPT ![k.dir] = NoDir]
                   /\ p_call' = [p_call EXCEPT ![c].pc = "done", ![c].res = "ok"]
              ELSE PFail(c)
    /\ UNCHANGED <<ca_vars, sign_vars, more_vars>>

Init == CAInit /\ SignInit /\ MoreInit /\ ParInit

\* The processes run concurrently, their file system calls interleaved.
Next == \E p \in Procs : CAStep(p)

Spec == Init /\ [][Next]_vars

\* One CA operation at a time; the process may be killed at any step and
\* started again.
NextSeq == \E p \in Single : CAStep(p) \/ Crash(p)

SpecSeq == Init /\ [][NextSeq]_vars

\* One CA operation at a time; files may be missing when one starts.
NextEnv == (\E p \in Single : CAStep(p)) \/ RemoveFile

SpecEnv == Init /\ [][NextEnv]_vars

\* One CA operation at a time; between calls the root key may be lost and a
\* root file may become unreadable.
NextLoss == (\E p \in Single : CAStep(p)) \/ RemoveKey \/ DamageRoot

SpecLoss == Init /\ [][NextLoss]_vars

\* Verification: documents are stored, damaged and verified; the signing
\* certificate may be revoked.
NextVerify == VPut \/ VDamage \/ VRevoke \/ VStart \/ VReturn

SpecVerify == Init /\ [][NextVerify]_vars

\* Concurrent signing: the calls' file system calls interleave.
NextPar ==
    \E c \in Calls :
        PUpload(c) \/ PStart(c) \/ PLoad(c) \/ PCertify(c) \/ PCount(c) \/ PPage(c) \/ PMove(c)

SpecPar == Init /\ [][NextPar]_vars

\* The signing engine called through the wrappers, with a certificate that
\* stays as it is.
NextEntry == SUpload \/ SWrapper \/ SLoad \/ SCertify \/ SCount \/ SPage \/ SMove

SpecEntry == Init /\ [][NextEntry]_vars

\* The signing engine: uploads and one signing call at a time.
NextSign == SUpload \/ SCertChange \/ SStart \/ SLoad \/ SCertify \/ SCount \/ SPage \/ SMove

SpecSign == Init /\ [][NextSign]_vars

\* ================================================================ properties
\* The serials of the certificates signed so far, in signing order.
IssuedSerials == [j \in DOMAIN issued |-> issued[j].serial]

StrictlyIncreasing(seq) == \A i, j \in DOMAIN seq : i < j => seq[i] < seq[j]

AllIdle == \A p \in Procs : pc[p] = "idle"

\* C1 (fails under Spec): issued serials never repeat: no two issued
\* certificates carry the same serial, in every interleaving of issuance
\* requests on one CA directory.
SerialsNeverRepeat ==
    \A i, j \in DOMAIN issued : i # j => issued[i].serial # issued[j].serial

\* A process holds its serial from get_next_serial_number's return on.
Allocated(p) == pc[p] \in {"sign", "p12_write", "bundle_write"}

\* C6 (SpecSeq: one call at a time, a process crash possible at every step):
\* from the moment a serial s is allocated, while its certificate is built,
\* persisted and returned, serial.txt holds a value greater than s; and after
\* any crash and restart serial.txt is either unreadable (issuance then
\* raises) or greater than every serial ever put in a certificate, so the
\* issued serials strictly increase.
SerialDurable ==
    /\ \A p \in Procs : Allocated(p) =>
          serial_file.st = "ok" /\ serial_file.n > loc_serial[p]
    /\ p12_file.st = "ok" /\ serial_file.st = "ok" => serial_file.n > p12_file.serial
    /\ \A j \in DOMAIN issued :
          /\ Exists(serial_file)
          /\ serial_file.st = "ok" => serial_file.n > issued[j].serial
    /\ StrictlyIncreasing(IssuedSerials)

\* Serial 2 was issued, the call that allocated 3 crashed, and the call after
\* the restart issued 4.
SerialDurableWitness ==
    /\ Len(issued) = 2
    /\ issued[1].serial = 2
    /\ issued[2].serial = 4
    /\ AllIdle

\* C7 (fails under SpecEnv): the persisted next_serial never decreases and is
\* never set back to 2, also when the root certificate, the root key or the
\* serial file is missing when an operation starts.
CounterNeverDecreases ==
    serial_file.st = "ok" => serial_file.n >= serial_hi

\* The three persisted parts of the CA.
RootState == <<ca_cert_file, ca_key_file, serial_file>>

InLoad(p) == pc[p] \in {"load_check", "load_cert", "load_key"}

\* C8 (SpecSeq): once load_ca_certificate has returned a root, every later
\* call, between any issuance and CRL building, returns that same root (serial
\* 1, same key), the root certificate and key files stay what they were, and
\* a load leaves serial.txt untouched.
BootstrapIdempotent ==
    /\ [](boots # {} =>
            /\ Cardinality(boots) = 1
            /\ ca_cert_file.st = "ok"
            /\ ca_cert_file.serial = RootSerial
            /\ boots = {ca_cert_file.key}
            /\ ca_key_file = [st |-> "ok", key |-> ca_cert_file.key])
    /\ [][boots # {} =>
            /\ ca_cert_file' = ca_cert_file
            /\ ca_key_file' = ca_key_file
            /\ boots' = boots
            /\ (\E p \in Procs : InLoad(p)) => RootState' = RootState]_vars

\* The root was returned, a certificate issued and a CRL built in three or
\* more calls, the first bootstrap having crashed half-way.
BootstrapIdempotentWitness ==
    /\ boots # {}
    /\ keygen = 2
    /\ started >= 3
    /\ Len(issued) >= 1
    /\ AllIdle

IsPrefix(a, b) == Len(a) <= Len(b) /\ SubSeq(b, 1, Len(a)) = a

\* The document the running (or last) call was given, as it was at the call.
Input == s_snap[s_in]

Succeeded == s_pc = "idle" /\ s_res = "ok"

\* What a call has added to its input is one certifying signature followed
\* by approval signatures only.
CertifyThenApprove(d) ==
    /\ IsPrefix(Input, d)
    /\ Len(d) > Len(Input)
    /\ d[Len(Input) + 1].kind = "certify"
    /\ \A j \in (Len(Input) + 2)..Len(d) : d[j].kind = "approve"

ApprovalAfterCertify(d) ==
    \A j \in DOMAIN d : d[j].kind = "approve" =>
        \E i \in 1..(j - 1) : d[i].kind = "certify"

RoundTrip ==
    Succeeded /\ Len(Input) = 1 =>
        LET out == docs[s_out]
            n == Input[1].pages
        IN  /\ Count(out, "certify") = 1
            /\ \A j \in DOMAIN out : out[j].kind = "certify" => out[j].level = 1
            /\ Count(out, "approve") = n
            /\ Len(out) = n + 2
            /\ out[1] = Input[1]

\* A two-page document was signed by sign_pdf_multi_page_with_proper_mdp.
RoundTripWitness ==
    /\ Succeeded
    /\ s_fn = "mdp"
    /\ Len(Input) = 1
    /\ Input[1].pages = 2
    /\ Len(docs[s_out]) = 4

\* C4 (SpecSign): every file the call writes is the file it read followed by
\* one new signature, whose byte range is exactly the file read; so the input
\* and every earlier revision are prefixes of every later one, and in every
\* document each signature covers all bytes before it and none after.
AppendOnlyChain ==
    /\ \A k \in DOMAIN s_tmp :
          LET prev == IF k = 1 THEN Input ELSE s_tmp[k - 1]
              t == s_tmp[k]
          IN  /\ Len(t) = Len(prev) + 1
              /\ SubSeq(t, 1, Len(prev)) = prev
              /\ t[Len(t)].covers = Len(prev)
    /\ Succeeded => IsPrefix(Input, docs[s_out])
    /\ \A q \in Paths : \A j \in 2..Len(docs[q]) : docs[q][j].covers = j - 1

\* PyHanko has certified a document and approved two pages of it.
AppendOnlyChainWitness ==
    /\ s_fn = "pyhanko"
    /\ s_pc = "page"
    /\ Len(s_tmp) = 3

\* C5 (SpecSign): a call returns output_path only after the loop has signed
\* every page, the document there then carrying N approval signatures more
\* than the input; a call that stopped inside the loop has raised.
NoPartialSuccess ==
    /\ Succeeded =>
          /\ Input # NoDoc
          /\ s_i = s_count
          /\ s_count = Input[1].pages
          /\ Count(docs[s_out], "approve") = Count(Input, "approve") + s_count
    /\ s_pc = "idle" /\ s_i < s_count => s_res = "raised"

\* The approval of page 2 failed after page 1 was approved.
NoPartialSuccessWitness ==
    /\ s_pc = "idle"
    /\ s_res = "raised"
    /\ s_i = 1
    /\ s_count = 2

\* C10 (fails under SpecSign): no document holds more than one certifying
\* signature, also after signing a document that the engine has produced.
SingleCertification ==
    \A q \in Paths : Count(docs[q], "certify") <= 1

\* C11 (fails under SpecSign): a signing call made while the configured
\* certificate is expired or its PKCS#12 container cannot be loaded fails
\* before the certifying signature is computed and writes no temporary file.
UnusableCertWritesNothing ==
    s_pc # "idle" /\ cert_st # "valid" => s_tmp = <<>>

\* A call is inside create_ca_certificate.
InCreate(p) == pc[p] \in {"ca_wcert_open", "ca_wcert_flush", "ca_wkey_open",
                          "ca_wkey_flush", "ca_wserial_open", "ca_wserial_flush"}

\* C12 (fails under SpecLoss): on a bootstrapped CA whose root key file is
\* missing, create_pdf_signing_certificate fails: the call never generates a
\* new root, and so replaces neither the root nor the serial counter.
RootKeyMissingFails ==
    \A p \in Procs :
        boots # {} /\ todo[p] # <<>> /\ Head(todo[p]) = "issue" => ~InCreate(p)

\* Both root files exist, one of them cannot be parsed or decrypted, and no
\* call is in the middle of writing them.
Unreadable ==
    /\ Exists(ca_cert_file) /\ Exists(ca_key_file)
    /\ ca_cert_file.st # "ok" \/ ca_key_file.st # "ok"
    /\ \A p \in Procs : ~InCreate(p)

\* C13 (SpecLoss): while both root files exist but one of them cannot be
\* parsed or decrypted, no call gets past load_ca_certificate, and no step of
\* a call changes the root certificate, the root key or the serial counter,
\* generates a key, signs a certificate or returns a root; a call enters
\* create_ca_certificate only when a root file is missing.
UnreadableRootKept ==
    /\ [](Unreadable => \A p \in Procs : pc[p] = "idle" \/ InLoad(p))
    /\ [][Unreadable /\ pc' # pc =>
            /\ RootState' = RootState
            /\ keygen' = keygen
            /\ issued' = issued
            /\ boots' = boots]_vars
    /\ [][\A p \in Procs : ~InCreate(p) /\ InCreate(p)' =>
            ~Exists(ca_cert_file) \/ ~Exists(ca_key_file)]_vars

\* A call on a bootstrapped CA has read the certificate and is about to parse
\* a key file that cannot be decrypted.
UnreadableRootKeptWitness ==
    /\ boots # {}
    /\ ca_cert_file.st = "ok"
    /\ ca_key_file.st = "torn"
    /\ \E p \in Procs : pc[p] = "load_key"

\* C14 (fails under SpecSeq): the CRL holds only serials that the CA has
\* handed out through issuance; a serial that was never issued is rejected.
CrlOnlyIssued ==
    \A n \in crl_file.revoked : \E j \in DOMAIN issued : issued[j].serial = n

\* C15 (fails under SpecSeq): a serial that is in the persisted CRL is in
\* every CRL written later, also by a create_crl call without argument: the
\* set of revoked serials in ca_crl.pem never shrinks.
CrlNeverShrinks ==
    [][crl_file.revoked \subseteq crl_file'.revoked]_vars

\* ------------------------------------------------------------ verification
\* The step in which a verification call returns.
Returns == v_pc = "read" /\ v_pc' = "idle"

\* The file the call reads and the damage done to it.
Given == docs[v_path]

GivenDamage == damage[v_path]

\* C16 (fails under SpecVerify): once the signing certificate is revoked,
\* verification reports none of its signatures as valid.
RevokedNeverValid ==
    [][Returns /\ revoked =>
        \A k \in DOMAIN v_res'.list : ~v_res'.list[k].valid]_vars

\* C17 (fails under SpecVerify): when bytes inside chunk `at` of a signed
\* document were changed, verification reports every signature, those whose
\* covered range holds the change (chunk `at` and later) as invalid and the
\* earlier ones as valid.
TamperDetected ==
    [][Returns /\ v_fn # "unavailable" /\ Given # NoDoc
         /\ GivenDamage.how \in {"content", "syntax"} =>
        /\ Len(v_res'.list) = Len(Given) - 1
        /\ \A k \in 1..(Len(Given) - 1) :
              v_res'.list[k].valid = (k + 1 < GivenDamage.at)]_vars

\* C18 (fails under SpecVerify): a document whose approvals come before its
\* certifying signature is not reported like a correctly ordered one:
\* verification reports a signature of it as invalid or ends with an error.
MisorderedDetected ==
    [][Returns /\ v_fn # "unavailable" /\ Given # NoDoc
         /\ ~ApprovalAfterCertify(Given) =>
        \/ v_res'.outcome = "error"
        \/ \E k \in DOMAIN v_res'.list : ~v_res'.list[k].valid]_vars

\* C19 (fails under SpecVerify): verifying a signed document whose last bytes
\* were cut off ends with an explicit error, not with a list of results.
TruncatedIsError ==
    [][Returns /\ Len(Given) >= 2 /\ GivenDamage.how = "truncated" =>
        v_res'.outcome = "error"]_vars

\* C20 (SpecVerify): from its call to its return a verification changes no
\* file it is given, no CA file, and neither the signing certificate nor the
\* revocation state, whatever it reports.
VerifyReadOnly ==
    [][v_pc = "read" \/ v_pc' = "read" =>
        /\ docs' = docs
        /\ damage' = damage
        /\ ca_files' = ca_files
        /\ cert_st' = cert_st
        /\ revoked' = revoked]_vars

\* A verification has returned a report with an invalid signature for a
\* document whose bytes were changed.
VerifyReadOnlyWitness ==
    /\ v_pc = "idle"
    /\ v_res.outcome = "returned"
    /\ Len(v_res.list) >= 2
    /\ \E k \in DOMAIN v_res.list : ~v_res.list[k].valid
    /\ damage[v_path].how = "content"

\* Every file of the engine: the stored documents and the temporary files of
\* the call in progress.
EngineFiles == {docs[q] : q \in Paths} \cup {s_tmp[j] : j \in DOMAIN s_tmp}

\* C21 (SpecSign): in every file the engine writes, a certifying revision has
\* no signaturebox and every approval revision has one, on a page index of
\* the document that was set in its dictionary before it was signed; the
\* certifying signature is the only invisible one.
OnlyCertificationInvisible ==
    \A data \in EngineFiles : \A j \in DOMAIN data :
        /\ data[j].kind = "certify" => ~data[j].visible
        /\ data[j].kind = "approve" =>
              /\ data[j].visible
              /\ data[j].page = data[j].num - 1
              /\ data[j].page \in 0..(data[1].pages - 1)

\* A call has certified and approved a two-page document: an invisible
\* revision followed by two visible ones.
OnlyCertificationInvisibleWitness ==
    /\ Succeeded
    /\ Input # NoDoc /\ Len(Input) = 1 /\ Input[1].pages = 2
    /\ Len(docs[s_out]) = 4
    /\ docs[s_out][2].kind = "certify" /\ ~docs[s_out][2].visible
    /\ docs[s_out][3].visible /\ docs[s_out][4].visible

\* C22 (fails under SpecSign): for every approval signature the date and time
\* shown in its appearance and the signing date recorded for the signature
\* are the same clock reading, in the endesive functions and in the PyHanko
\* function, also when the clock moves on between building the appearance
\* and signing.
TimestampConsistent == s_stamp.shown = s_stamp.signed

\* The field name of a revision's signature: the text and the page number
\* formatted into it.
FieldName(c) == <<c.field, c.num>>

\* The revisions of d that follow the call's input.
Appended(d) == SubSeq(d, Len(Input) + 1, Len(d))

\* C23 (SpecSign): a call approves the pages k = 1..N in increasing order, one
\* loop iteration each: after s_i iterations the newest file ends with the
\* approvals of pages 1..s_i in that order, and a call that succeeded has
\* appended the certifying signature and exactly one visible approval per
\* page, whose field names differ from each other and from the certifying
\* signature's.
OneApprovalPerPage ==
    /\ s_pc = "page" /\ s_cur > 0 =>
          LET d == s_tmp[s_cur]
              base == Len(d) - s_i
          IN  /\ base >= 2
              /\ d[base].kind = "certify"
              /\ \A k \in 1..s_i :
                    /\ d[base + k].kind = "approve"
                    /\ d[base + k].num = k
                    /\ d[base + k].page = k - 1
    /\ Succeeded /\ Input # NoDoc =>
          LET a == Appended(docs[s_out])
              n == PageCount(Input)
          IN  /\ Len(a) = n + 1
              /\ a[1].kind = "certify"
              /\ \A k \in 1..n :
                    a[k + 1].kind = "approve" /\ a[k + 1].visible /\ a[k + 1].page = k - 1
              /\ \A j, k \in DOMAIN a : j # k => FieldName(a[j]) # FieldName(a[k])

\* A call on a fresh two-page document has ended after two loop iterations,
\* the first for page 1 and the second for page 2.
OneApprovalPerPageWitness ==
    /\ Succeeded
    /\ Input # NoDoc /\ Len(Input) = 1 /\ PageCount(Input) = 2
    /\ s_i = 2
    /\ Len(docs[s_out]) = 4
    /\ FieldName(docs[s_out][3]) # FieldName(docs[s_out][4])
    /\ docs[s_out][3].page = 0 /\ docs[s_out][4].page = 1

\* The files of the temporary directory of call c hold revisions of the
\* call's own input.
OwnTempFiles(c) ==
    LET k == p_call[c]
    IN  k.pc \in {"count", "page"} =>
          /\ p_dirs[k.dir].exists
          /\ p_dirs[k.dir].f[k.cur] # NoDoc
          /\ IsPrefix(p_files[In(c)], p_dirs[k.dir].f[k.cur])

\* C24 (SpecPar): in every interleaving of signing calls that have different
\* input and output paths, a call works on revisions of its own input only,
\* leaves its input as it was, and ends as it does when it runs alone: a
\* success leaves at its output path the certifying signature and the page
\* approvals appended to its input, a failure leaves what its own handler
\* leaves.
ParallelIndependent ==
    \A c \in Calls :
        LET k == p_call[c]
            in == p_files[In(c)]
            out == p_files[Out(c)]
        IN  /\ OwnTempFiles(c)
            /\ in = NoDoc \/ (Len(in) = 1 /\ in[1].kind = "base")
            /\ k.res = "none" => out = NoDoc
            /\ k.res = "ok" => out = SignedDoc(k.fn, PageCount(in))
            /\ k.res = "raised" => out = NoDoc \/ (k.fn = "legacy" /\ out = in)

\* Call 1 has signed its one-page document while call 2 was in the page
\* loop of its two-page document.
ParallelIndependentWitness ==
    /\ p_call[1].res = "ok"
    /\ Len(p_files[Out(1)]) = 3
    /\ p_call[2].pc = "page" /\ p_call[2].i = 1 /\ p_call[2].count = 2
    /\ p_dirs[p_call[2].dir].f[1] # NoDoc

\* C25 (fails under Spec): whenever the persisted root is one that
\* load_ca_certificate accepts (both files parse) and no call is running,
\* ca_cert.pem and ca_key.pem hold the same key pair, and every leaf was
\* signed with the key of the root certificate that names its issuer; this
\* also after two bootstrap calls that ran concurrently on an empty
\* directory.
RootPairMatches ==
    /\ AllIdle /\ ca_cert_file.st = "ok" /\ ca_key_file.st = "ok" =>
          ca_cert_file.key = ca_key_file.key
    /\ \A j \in DOMAIN issued : issued[j].signer = issued[j].issuer

\* C26 (fails under SpecSeq): every signing_cert.p12 that issuance has written
\* holds the issuing root certificate next to the leaf key and the leaf
\* certificate, whichever serialization method produced it.
BundleHasChain == p12_file.st = "ok" => p12_file.chain

\* The step in which a signing call returns or raises.
SReturns == s_pc # "idle" /\ s_pc' = "idle"

\* How the call ended: what it returned or raised and the files it left.
Outcome == [res |-> s_res, docs |-> docs]

\* The ways sign_pdf_multi_page_with_proper_mdp(i, o) ends on the files d:
\* it raises and leaves every file as it was, or it returns o, where it has
\* put the input followed by the certifying signature and the approvals of
\* all pages.
MdpOutcomes(d, i, o) ==
    {[res |-> "raised", docs |-> d]}
    \cup (IF d[i] = NoDoc THEN {}
          ELSE {[res |-> "ok",
                 docs |-> [d EXCEPT ![o] = ApprovePages("mdp", Revision(d[i], CertifyDct("mdp")),
                                                        0, PageCount(d[i]))]]})

\* C27 (SpecEntry): sign_pdf_single_page, sign_pdf_cryptographically with
\* use_pyhanko=False, create_pdfa_compliant_signature, _sign_with_endesive,
\* sign_each_page_with_endesive and sign_each_page_individually_with_endesive
\* end as sign_pdf_multi_page_with_proper_mdp ends on the same files and
\* paths: the same revisions at the same output path and the same return, or
\* the same raise with the same files left, for one-page and for longer
\* documents.
EntryPointsAgree ==
    [][SReturns /\ s_entry \in Wrappers =>
        Outcome' \in MdpOutcomes(s_snap, s_in, s_out)]_vars

\* sign_pdf_single_page has signed a one-page document that was not signed
\* before.
EntryPointsAgreeWitness ==
    /\ Succeeded
    /\ s_entry = "sign_pdf_single_page"
    /\ Input # NoDoc /\ Len(Input) = 1 /\ PageCount(Input) = 1
    /\ Len(docs[s_out]) = 3
    /\ s_in # s_out

\* C28 (fails under SpecSign): sign_pdf_multi_page ends as
\* sign_pdf_multi_page_with_proper_mdp ends on the same files and paths, the
\* order of the revisions apart: the same return and output, or the same
\* raise with the same files at output_path, also when a signing step fails.
LegacyMatchesImproved ==
    [][SReturns /\ s_fn = "legacy" =>
        Outcome' \in MdpOutcomes(s_snap, s_in, s_out)]_vars

\* C29 (fails under SpecSign): a call that fails, on any of the three signing
\* paths and at any step, with input_path different from output_path, leaves
\* the input's bytes as they were and puts no file at an output_path where
\* there was none.
FailureLeavesNothing ==
    [][SReturns /\ s_res' = "raised" /\ s_in # s_out =>
        /\ docs'[s_in] = s_snap[s_in]
        /\ s_snap[s_out] = NoDoc => docs'[s_out] = NoDoc]_vars

\* C30 (fails under SpecSign): the name line of every approval signature is
\* the common name of the certificate the call loaded and signs with, in
\* upper case, in the endesive functions and in the PyHanko function.
SignerNameShown == s_stamp # NoStamp => s_stamp.name = Upper(s_cn)

====
